---- MODULE Spec2Model ----
(***************************************************************************)
(* A model of CytoPy's gate data model (CytoPy/data/gate.py) and of its    *)
(* FCS reader, compensation and batch mapping discovery                    *)
(* (cytopy/flow/read_write.py).                                            *)
(*                                                                         *)
(* Three state machines share the module:                                  *)
(*   SpecGate   ThresholdGate objects, ChildThreshold objects on a heap,   *)
(*              add_child and the attribute assignments a caller can make  *)
(*   SpecFCS    FCSFile.__init__ on one file followed by compensate()      *)
(*   SpecBatch  explore_channel_mappings: Pool.map of fcs_mappings         *)
(* Each specification holds the variables of the other two at their idle   *)
(* values.                                                                 *)
(***************************************************************************)
EXTENDS Integers, Sequences, FiniteSets, TLC

VARIABLES
    gates,       \* gate id -> [x, y, preprocessing, children]; children is a list of references
    heap,        \* child id -> [definition, geom]: the ChildThreshold objects
    call,        \* the most recent operation on the gate model and how it ended
    file,        \* the file given to FCSFile(...): [text, channels, events, comp_matrix]
    pc,          \* "new" before __init__ ran, "loaded" after it returned, "failed" after it raised
    rec,         \* the attributes of the FCSFile object
    err,         \* the exception the last FCSFile operation raised, or None
    calls,       \* how many times compensate() has been invoked
    fcs_files,   \* explore_channel_mappings: the list of files filter_fcs_files returned
    results,     \* Pool.map: index -> "pending" or what fcs_mappings returned / raised
    bpc,         \* "map" while workers run, "done" after explore_channel_mappings ended
    output       \* what explore_channel_mappings returned or raised

vars == <<gates, heap, call, file, pc, rec, err, calls, fcs_files, results, bpc, output>>
gateVars == <<gates, heap, call>>
fcsVars == <<file, pc, rec, err, calls>>
batchVars == <<fcs_files, results, bpc, output>>

\* Python's None, and the marker of a key that a dict does not hold.
None == "<None>"
Absent == "<absent>"

\* dict.get(key, default) on a dict held as a record of values-or-Absent.
Get(d, k, default) == IF d[k] = Absent THEN default ELSE d[k]

\* An exception: its Python type and the statement that raised it.
Raise(type, about) == [type |-> type, about |-> about]
NoError == Raise("none", "none")

\* The values the variables of a state machine hold while another one runs.
GateIdle ==
    /\ gates = <<>> /\ heap = <<>> /\ call = None

FcsIdle ==
    /\ file = None /\ pc = "idle" /\ rec = None /\ err = NoError /\ calls = 0

BatchIdle ==
    /\ fcs_files = <<>> /\ results = <<>> /\ bpc = "idle" /\ output = None

--------------------------------------------------------------------------
(* CytoPy/data/gate.py                                                     *)

\* How long a child list may grow in the model.
MaxChildren == 2

\* Values an axis attribute is given.
AxisX == {"CD3", "CD4"}
AxisY == {None, "CD8"}

\* The preprocessing dicts a gate is given: only the keys add_child reads.
Preprocessings ==
    { [transform_x |-> Absent, transform_y |-> Absent],
      [transform_x |-> "logicle", transform_y |-> Absent],
      [transform_x |-> "logicle", transform_y |-> "log"] }

\* child.definition values: every legal code, and strings that are no code.
Definitions == {"+", "-", "++", "+-", "-+", "--", "+++", "", None}

\* A ThresholdGeom as ChildThreshold(..., geom=ThresholdGeom()) holds it.
NewGeom == [x |-> None, y |-> None, transform_x |-> None, transform_y |-> None]

\* A gate as constructed: x is required, y and the dicts default.
NewGate(x) ==
    [x |-> x, y |-> None,
     preprocessing |-> [transform_x |-> Absent, transform_y |-> Absent],
     children |-> <<>>]

NoCall == [op |-> "none", gate |-> None, child |-> None, raised |-> None]

\* DefinitionAccepted with the mode test lost: any code passes on any gate.
DefinitionAccepted_AnyMode(y, definition) ==
    definition \in {"++", "+-", "-+", "--", "+", "-"}

\* Lines 68-71: the two assert statements.
DefinitionAccepted(y, definition) ==
    IF y # None
    THEN definition \in {"++", "+-", "-+", "--"}
    ELSE definition \in {"+", "-"}

\* Stamp with transform_y read from the transform_x entry.
Stamp_SameTransform(gate) ==
    [x |-> gate.x,
     y |-> gate.y,
     transform_x |-> Get(gate.preprocessing, "transform_x", None),
     transform_y |-> Get(gate.preprocessing, "transform_x", None)]

\* Lines 72-74: the geom as add_child leaves it.
Stamp(gate) ==
    [x |-> gate.x,
     y |-> gate.y,
     transform_x |-> Get(gate.preprocessing, "transform_x", None),
     transform_y |-> Get(gate.preprocessing, "transform_y", None)]

\* Line 75: self.children.append(child) stores the reference it is given.
AppendChild(children, c) == Append(children, c)

\* add_child with the append moved above the assert statements.
add_child_AppendFirst(g, c) ==
    /\ Len(gates[g].children) < MaxChildren
    /\ gates' = [gates EXCEPT ![g].children = AppendChild(@, c)]
    /\ IF DefinitionAccepted(gates[g].y, heap[c].definition)
       THEN /\ heap' = [heap EXCEPT ![c].geom = Stamp(gates[g])]
            /\ call' = [op |-> "add_child", gate |-> g, child |-> c, raised |-> None]
       ELSE /\ UNCHANGED heap
            /\ call' = [op |-> "add_child", gate |-> g, child |-> c,
                        raised |-> "AssertionError"]
    /\ UNCHANGED <<fcsVars, batchVars>>

\* ThresholdGate.add_child(child), lines 66-75, on gate g with the object c.
add_child(g, c) ==
    /\ Len(gates[g].children) < MaxChildren
    /\ IF DefinitionAccepted(gates[g].y, heap[c].definition)
       THEN /\ heap' = [heap EXCEPT ![c].geom = Stamp(gates[g])]
            /\ gates' = [gates EXCEPT ![g].children = AppendChild(@, c)]
            /\ call' = [op |-> "add_child", gate |-> g, child |-> c, raised |-> None]
       ELSE /\ UNCHANGED <<gates, heap>>
            /\ call' = [op |-> "add_child", gate |-> g, child |-> c,
                        raised |-> "AssertionError"]
    /\ UNCHANGED <<fcsVars, batchVars>>

\* gate.x = v, gate.y = v, gate.preprocessing = d: a caller's assignments.
set_x(g, v) ==
    /\ gates' = [gates EXCEPT ![g].x = v]
    /\ call' = [op |-> "set_x", gate |-> g, child |-> None, raised |-> None]
    /\ UNCHANGED <<heap, fcsVars, batchVars>>

set_y(g, v) ==
    /\ gates' = [gates EXCEPT ![g].y = v]
    /\ call' = [op |-> "set_y", gate |-> g, child |-> None, raised |-> None]
    /\ UNCHANGED <<heap, fcsVars, batchVars>>

set_preprocessing(g, d) ==
    /\ gates' = [gates EXCEPT ![g].preprocessing = d]
    /\ call' = [op |-> "set_preprocessing", gate |-> g, child |-> None, raised |-> None]
    /\ UNCHANGED <<heap, fcsVars, batchVars>>

\* Either one gate and two children of any definition, or two gates and one
\* child that some mode accepts. Every child is built with the three
\* documented parameters (lines 9-16), so child.geom is a ThresholdGeom.
InitGate ==
    /\ \/ /\ gates = [g \in {"g1"} |-> NewGate("CD3")]
          /\ \E d1, d2 \in Definitions :
                heap = [c \in {"c1", "c2"} |->
                          [definition |-> IF c = "c1" THEN d1 ELSE d2, geom |-> NewGeom]]
       \/ /\ gates = [g \in {"g1", "g2"} |-> NewGate(IF g = "g1" THEN "CD3" ELSE "CD4")]
          /\ \E d1 \in {"+", "++"} :
                heap = [c \in {"c1"} |-> [definition |-> d1, geom |-> NewGeom]]
    /\ call = NoCall
    /\ FcsIdle
    /\ BatchIdle

NextGate ==
    \/ \E g \in DOMAIN gates : \E c \in DOMAIN heap : add_child(g, c)
    \/ \E g \in DOMAIN gates : \E v \in AxisX : set_x(g, v)
    \/ \E g \in DOMAIN gates : \E v \in AxisY : set_y(g, v)
    \/ \E g \in DOMAIN gates : \E d \in Preprocessings : set_preprocessing(g, d)

SpecGate == InitGate /\ [][NextGate]_vars

--------------------------------------------------------------------------
(* Claims about the gate model                                             *)

\* C1: the add_child call just made returned normally if and only if the
\* child's definition is one of "++", "+-", "-+", "--" on a gate whose y is
\* set, or one of "+", "-" on a gate whose y is None; every other call
\* raised the assertion's error.
C1_AddChildAcceptsExactlyModeCodes ==
    call.op = "add_child" =>
        LET y == gates[call.gate].y
            d == heap[call.child].definition
            allowed == IF y = None THEN {"+", "-"} ELSE {"++", "+-", "-+", "--"}
        IN  /\ call.raised \in {None, "AssertionError"}
            /\ (call.raised = None) <=> (d \in allowed)

\* A 1-D code was refused by a 2-D gate.
C1_Witness ==
    /\ call.op = "add_child"
    /\ gates[call.gate].y # None
    /\ heap[call.child].definition = "-"
    /\ call.raised = "AssertionError"

\* C2: a step that is an add_child call ending in the validation error
\* leaves every gate's child list as it was.
C2_FailedAddChildKeepsChildren ==
    [][(call'.op = "add_child" /\ call'.raised # None) =>
          \A g \in DOMAIN gates : gates'[g].children = gates[g].children]_vars

\* An add_child call failed on a gate that already holds a child.
C2_Witness ==
    /\ call.op = "add_child"
    /\ call.raised = "AssertionError"
    /\ Len(gates[call.gate].children) > 0

\* C3: a step that is a successful add_child(child) on gate g appends the
\* child as the last entry of g's list, keeps the earlier entries and the
\* other gates' lists, and leaves the child's geom with g's x and y and with
\* the transform_x / transform_y entries of g's preprocessing, None for an
\* entry the dict does not hold.
C3_AddChildAppendsStampedChild ==
    [][(call'.op = "add_child" /\ call'.raised = None) =>
          LET g == call'.gate
              c == call'.child
              old == gates[g].children
              new == gates'[g].children
              p == gates[g].preprocessing
          IN  /\ Len(new) = Len(old) + 1
              /\ \A i \in 1..Len(old) : new[i] = old[i]
              /\ new[Len(new)] = c
              /\ \A h \in DOMAIN gates \ {g} : gates'[h].children = gates[h].children
              /\ heap'[c].geom.x = gates[g].x
              /\ heap'[c].geom.y = gates[g].y
              /\ heap'[c].geom.transform_x =
                    (IF p.transform_x = Absent THEN None ELSE p.transform_x)
              /\ heap'[c].geom.transform_y =
                    (IF p.transform_y = Absent THEN None ELSE p.transform_y)]_vars

\* A child was appended behind another one by a gate whose preprocessing
\* holds transform_x and not transform_y.
C3_Witness ==
    /\ call.op = "add_child"
    /\ call.raised = None
    /\ Len(gates[call.gate].children) = 2
    /\ gates[call.gate].preprocessing.transform_x # Absent
    /\ gates[call.gate].preprocessing.transform_y = Absent
    /\ heap[call.child].geom.transform_x = "logicle"
    /\ heap[call.child].geom.transform_y = None

\* C4: the geom of a child that is in some gate's list is the same after
\* every step.
C4_ListedChildGeomNeverChanges ==
    [][\A g \in DOMAIN gates : \A i \in 1..Len(gates[g].children) :
          heap'[gates[g].children[i]].geom = heap[gates[g].children[i]].geom]_vars

--------------------------------------------------------------------------
(* cytopy/flow/read_write.py: FCSFile                                      *)
(*                                                                         *)
(* A channel label is the sequence of its characters. A metadata value     *)
(* that the code splits on ',' (threshold, spill) is the list of its       *)
(* comma-separated fields, <<"">> being the empty string; every other     *)
(* value is a string. fcs.text is a function whose domain is the set of    *)
(* keys the file holds. A number is an integer: the matrices are chosen so *)
(* that the linear solve is exact.                                         *)

\* How many times compensate() is invoked on one record.
MaxCalls == 2

TextGet(text, k, default) == IF k \in DOMAIN text THEN text[k] ELSE default

\* int(s) and float(s): the numerals the files use; any other field raises ValueError.
Numerals == {"0", "1", "2", "3", "-1"}
NumberOf(s) ==
    CASE s = "0" -> 0 [] s = "1" -> 1 [] s = "2" -> 2 [] s = "3" -> 3 [] s = "-1" -> 0 - 1

\* str.strip().replace('\n', '') on the header fields the files use.
Strip(s) == CASE s = " PE-A" -> "PE-A" [] s = "FITC-A\n" -> "FITC-A" [] OTHER -> s

\* dateutil's parse(date + ' ' + etim).isoformat() on the values the files use:
\* a string that is no date-time raises ParserError, a ValueError.
DateParses(date, etim) == date = "05-JAN-2019" /\ etim = "10:15:30"
IsoFormat(date, etim) == "2019-01-05T10:15:30"

\* str.replace('_', '-')
Replace(s) == [i \in 1..Len(s) |-> IF s[i] = "_" THEN "-" ELSE s[i]]

\* _get_fluoro_mapping, lines 121-137.
get_fluoro_mapping(channels) ==
    [i \in 1..Len(channels) |->
        [channel |-> Replace(channels[i].PnN),
         marker |-> IF "PnS" \in DOMAIN channels[i]
                    THEN Replace(channels[i].PnS) ELSE <<>>]]

\* np.reshape(events, (-1, n)), line 90: the rows of n values.
CanReshape(events, n) == Len(events) % n = 0
Reshape(events, n) ==
    [r \in 1..(Len(events) \div n) |-> [c \in 1..n |-> events[(r - 1) * n + c]]]

\* Line 92: the fields taken two at a time; a chunk of one field cannot be unpacked.
CanChunk(fields) == Len(fields) % 2 = 0
Threshold(fields) ==
    [i \in 1..(Len(fields) \div 2) |->
        [channel |-> fields[2 * i - 1], threshold |-> fields[2 * i]]]

NoFrame == [kind |-> "None"]
Frame(labels, values) == [kind |-> "DataFrame", labels |-> labels, values |-> values]

\* _get_spill_matrix, lines 152-161, on the fields of the spill string.
SpillParses(fields) ==
    /\ fields[1] \in Numerals
    /\ NumberOf(fields[1]) >= 0
    /\ LET n == NumberOf(fields[1])
           values == SubSeq(fields, n + 2, Len(fields))
       IN  /\ \A i \in 1..Len(values) : values[i] \in Numerals
           /\ Len(values) = n * n
get_spill_matrix(fields) ==
    LET n == NumberOf(fields[1])
        header == SubSeq(fields, 2, n + 1)
        values == SubSeq(fields, n + 2, Len(fields))
    IN  Frame([i \in 1..Len(header) |-> Strip(header[i])],
              [r \in 1..n |-> [c \in 1..n |-> NumberOf(values[(r - 1) * n + c])]])

\* Lines 100-110: the spill attribute, or the exception the statements raise.
\* The assert of line 104 fails on a missing key and is caught by line 109.
SpillStep(f) ==
    IF f.comp_matrix.kind # "None"
    THEN [raised |-> NoError, spill |-> f.comp_matrix]
    ELSE IF "spill" \notin DOMAIN f.text
    THEN [raised |-> NoError, spill |-> NoFrame]
    ELSE IF f.text["spill"] = <<"">>
    THEN [raised |-> Raise("KeyError", "no spillover matrix found"), spill |-> NoFrame]
    ELSE IF ~SpillParses(f.text["spill"])
    THEN [raised |-> Raise("ValueError", "spill"), spill |-> NoFrame]
    ELSE [raised |-> NoError, spill |-> get_spill_matrix(f.text["spill"])]

\* Lines 95-99: only KeyError is caught.
DateStep(text) ==
    IF "date" \notin DOMAIN text \/ "etim" \notin DOMAIN text
    THEN [raised |-> NoError, processing_date |-> "Unknown"]
    ELSE IF DateParses(text["date"], text["etim"])
    THEN [raised |-> NoError, processing_date |-> IsoFormat(text["date"], text["etim"])]
    ELSE [raised |-> Raise("ValueError", "date"), processing_date |-> "Unknown"]

\* Lines 88 and 111-113: the test reads one key and the comparison another.
CstStep(text) ==
    IF "cst_setup_status" \notin DOMAIN text
    THEN [raised |-> NoError, cst_pass |-> FALSE]
    ELSE IF "cst setup status" \notin DOMAIN text
    THEN [raised |-> Raise("KeyError", "cst setup status"), cst_pass |-> FALSE]
    ELSE [raised |-> NoError, cst_pass |-> (text["cst setup status"] = "SUCCESS")]

\* Lines 91-94.
ThresholdStep(text) ==
    IF "threshold" \notin DOMAIN text
    THEN [raised |-> NoError, threshold |-> [py |-> "str", v |-> "Unknown"]]
    ELSE IF ~CanChunk(text["threshold"])
    THEN [raised |-> Raise("ValueError", "threshold"), threshold |-> [py |-> "str", v |-> "Unknown"]]
    ELSE [raised |-> NoError, threshold |-> [py |-> "list", v |-> Threshold(text["threshold"])]]

\* FCSFile.__init__, lines 77-113: the first exception that escapes, and the
\* attributes of the object when none does.
FCSFile(f) ==
    LET text == f.text
        n == Len(f.channels)
        th == ThresholdStep(text)
        dt == DateStep(text)
        sp == SpillStep(f)
        cst == CstStep(text)
        raised ==
            IF "tot" \in DOMAIN text /\ text["tot"] \notin Numerals
            THEN Raise("ValueError", "tot")
            ELSE IF ~CanReshape(f.events, n) THEN Raise("ValueError", "reshape")
            ELSE IF th.raised # NoError THEN th.raised
            ELSE IF dt.raised # NoError THEN dt.raised
            ELSE IF sp.raised # NoError THEN sp.raised
            ELSE cst.raised
    IN  [raised |-> raised,
         obj |-> IF raised # NoError THEN None ELSE
            [filename |-> TextGet(text, "fil", "Unknown_filename"),
             sys |-> TextGet(text, "sys", "Unknown_system"),
             total_events |-> IF "tot" \in DOMAIN text THEN NumberOf(text["tot"]) ELSE 0,
             tube_name |-> TextGet(text, "tube name", "Unknown"),
             exp_name |-> TextGet(text, "experiment name", "Unknown"),
             cytometer |-> TextGet(text, "cyt", "Unknown"),
             creator |-> TextGet(text, "creator", "Unknown"),
             operator |-> TextGet(text, "export user name", "Unknown"),
             fluoro_mappings |-> get_fluoro_mapping(f.channels),
             cst_pass |-> cst.cst_pass,
             data |-> f.events,
             event_data |-> Reshape(f.events, n),
             threshold |-> th.threshold,
             processing_date |-> dt.processing_date,
             spill |-> sp.spill]]

\* x.find(s) != -1
Contains(x, s) == \E i \in 1..(Len(x) - Len(s) + 1) : SubSeq(x, i, i + Len(s) - 1) = s

\* The substrings of lines 171-172.
ScatterNames ==
    << <<"F", "S", "C">>, <<"S", "S", "C">>, <<"T", "i", "m", "e">>,
       <<"F", "S">>, <<"S", "S">> >>

\* channel_idx with the substring test turned into an equality.
channel_idx_ExactName(mappings) ==
    SelectSeq([i \in 1..Len(mappings) |-> i],
              LAMBDA i : ~\E k \in 1..Len(ScatterNames) :
                            mappings[i].channel = ScatterNames[k])

\* Lines 170-172: the column indices compensate() reads and writes, in order.
channel_idx(mappings) ==
    SelectSeq([i \in 1..Len(mappings) |-> i],
              LAMBDA i : ~\E k \in 1..Len(ScatterNames) :
                            Contains(mappings[i].channel, ScatterNames[k]))

IsSquare(m) == \A r \in 1..Len(m) : Len(m[r]) = Len(m)

\* The determinant of a square matrix of at most two rows.
Det(m) ==
    CASE Len(m) = 0 -> 1
      [] Len(m) = 1 -> m[1][1]
      [] Len(m) = 2 -> m[1][1] * m[2][2] - m[1][2] * m[2][1]

\* np.linalg.solve(spill.T, row.T).T for one row of comp_data: the x with
\* x . spill = row, by Cramer's rule (the division is exact for the matrices
\* of the files, whose determinant is 1, -1 or 0).
Quot(a, b) == IF b > 0 THEN a \div b ELSE (0 - a) \div (0 - b)
SolveRow(m, row) ==
    CASE Len(m) = 0 -> <<>>
      [] Len(m) = 1 -> << Quot(row[1], m[1][1]) >>
      [] Len(m) = 2 ->
            << Quot(row[1] * m[2][2] - row[2] * m[2][1], Det(m)),
               Quot(row[2] * m[1][1] - row[1] * m[1][2], Det(m)) >>

\* Lines 173-175 on event matrix `data`: the columns idx replaced by the solution.
WriteBack(data, idx, m) ==
    [r \in 1..Len(data) |->
        LET solved == SolveRow(m, [k \in 1..Len(idx) |-> data[r][idx[k]]])
        IN  [c \in 1..Len(data[r]) |->
                IF \E k \in 1..Len(idx) : idx[k] = c
                THEN solved[CHOOSE k \in 1..Len(idx) : idx[k] = c]
                ELSE data[r][c]]]

\* What np.linalg.solve raises, if anything.
SolveError(m, idx) ==
    IF ~IsSquare(m) THEN Raise("LinAlgError", "not square")
    ELSE IF Len(m) # Len(idx) THEN Raise("ValueError", "dimension mismatch")
    ELSE IF Det(m) = 0 THEN Raise("LinAlgError", "singular matrix")
    ELSE NoError

\* compensate() reading the raw self.data instead of self.event_data.
compensate_FromRaw(o) ==
    IF o.spill.kind = "None"
    THEN [raised |-> Raise("AssertionError", "spill"), obj |-> o]
    ELSE LET idx == channel_idx(o.fluoro_mappings)
             m == o.spill.values
             e == SolveError(m, idx)
         IN  IF e # NoError
             THEN [raised |-> e, obj |-> o]
             ELSE [raised |-> NoError,
                   obj |-> [o EXCEPT !.event_data =
                              WriteBack(Reshape(o.data, Len(o.fluoro_mappings)), idx, m)]]

\* FCSFile.compensate, lines 163-175, on the object o.
compensate(o) ==
    IF o.spill.kind = "None"
    THEN [raised |-> Raise("AssertionError", "spill"), obj |-> o]
    ELSE LET idx == channel_idx(o.fluoro_mappings)
             m == o.spill.values
             e == SolveError(m, idx)
         IN  IF e # NoError
             THEN [raised |-> e, obj |-> o]
             ELSE [raised |-> NoError,
                   obj |-> [o EXCEPT !.event_data = WriteBack(@, idx, m)]]

\* FCSFile(filepath, comp_matrix) on the file of this run.
Construct ==
    /\ pc = "new"
    /\ LET r == FCSFile(file)
       IN  /\ err' = r.raised
           /\ rec' = r.obj
           /\ pc' = IF r.raised = NoError THEN "loaded" ELSE "failed"
    /\ UNCHANGED <<file, calls, gateVars, batchVars>>

\* record.compensate()
Compensate ==
    /\ pc = "loaded"
    /\ calls < MaxCalls
    /\ LET r == compensate(rec)
       IN  /\ err' = r.raised
           /\ rec' = r.obj
    /\ calls' = calls + 1
    /\ UNCHANGED <<file, pc, gateVars, batchVars>>

\* The files of the model.
Keys ==
    {"fil", "sys", "tot", "tube name", "experiment name", "cyt", "creator",
     "export user name", "threshold", "date", "etim", "spill",
     "cst_setup_status", "cst setup status"}

\* A well-formed value for every key.
GoodValue ==
    [k \in Keys |->
        CASE k = "fil" -> "a.fcs"
          [] k = "sys" -> "Windows"
          [] k = "tot" -> "2"
          [] k = "tube name" -> "T1"
          [] k = "experiment name" -> "Exp1"
          [] k = "cyt" -> "LSRFortessa"
          [] k = "creator" -> "DIVA"
          [] k = "export user name" -> "ross"
          [] k = "threshold" -> <<"FSC-A", "500", "SSC-A", "200">>
          [] k = "date" -> "05-JAN-2019"
          [] k = "etim" -> "10:15:30"
          [] k = "spill" -> <<"1", "FITC-A\n", "-1">>
          [] k = "cst_setup_status" -> "SUCCESS"
          [] k = "cst setup status" -> "SUCCESS"]

FSC_A == <<"F", "S", "C", "_", "A">>
SSC_W == <<"S", "S", "C", "-", "W">>
FS_Lin == <<"F", "S", "-", "L", "i", "n">>
Time == <<"T", "i", "m", "e">>
time == <<"t", "i", "m", "e">>
FITC_A == <<"F", "I", "T", "C", "_", "A">>
PE_A == <<"P", "E", "-", "A">>
CD3 == <<"C", "D", "3">>
CD_4 == <<"C", "D", "_", "4">>

ChannelLists ==
    { << [PnN |-> FSC_A], [PnN |-> FITC_A, PnS |-> CD3], [PnN |-> PE_A, PnS |-> CD_4] >>,
      << [PnN |-> FITC_A, PnS |-> CD3], [PnN |-> Time], [PnN |-> PE_A] >>,
      << [PnN |-> SSC_W], [PnN |-> FS_Lin], [PnN |-> PE_A, PnS |-> CD_4] >>,
      << [PnN |-> FITC_A] >>,
      << [PnN |-> FSC_A], [PnN |-> SSC_W] >>,
      << [PnN |-> time], [PnN |-> FSC_A] >>,
      << [PnN |-> FSC_A], [PnN |-> FITC_A, PnS |-> CD3] >> }

EventBuffers ==
    { <<>>, <<1, 2>>, <<1, 2, 3>>, <<2, 3, 1, 1>>, <<3, 1, 2, 2, 0, 1>> }

SpillStrings ==
    { <<"">>,
      <<"0">>,
      <<"1", "A", "1">>,
      <<"1", "A", "-1">>,
      <<"1", "A", "0">>,
      <<"2", " PE-A", "FITC-A\n", "1", "0", "0", "1">>,
      <<"2", "A", "B", "1", "1", "0", "1">>,
      <<"2", "A", "B", "1", "0", "-1", "1">>,
      <<"2", "A", "B", "1", "1", "1", "1">>,
      <<"2", "A", "B", "1", "0", "0">>,
      <<"2", "A", "B", "1", "x", "0", "1">> }

\* What pd.read_csv returns for the comp_matrix files of the model; NoFrame
\* stands for comp_matrix=None.
CompMatrices ==
    { NoFrame,
      Frame(<<"A", "B">>, << <<1, 1>>, <<0, 1>> >>),
      Frame(<<"A", "B">>, << <<1, 0>> >>) }

MetaChannels == << [PnN |-> FSC_A], [PnN |-> FITC_A, PnS |-> CD3] >>

\* Every combination of present and absent keys, each present key well-formed.
PresenceFiles ==
    { [text |-> [k \in S |-> GoodValue[k]], channels |-> MetaChannels,
       events |-> <<1, 2, 3, 4>>, comp_matrix |-> NoFrame] : S \in SUBSET Keys }

\* Every key present, with the values the code treats differently.
ValueFiles ==
    { [text |-> [k \in Keys \ absent |->
                    CASE k = "tot" -> tot
                      [] k = "threshold" -> th
                      [] k = "date" -> date
                      [] k = "spill" -> sp
                      [] k = "cst setup status" -> cst
                      [] OTHER -> GoodValue[k]],
       channels |-> MetaChannels, events |-> <<1, 2, 3, 4>>, comp_matrix |-> cm] :
        absent \in SUBSET {"etim", "spill", "cst_setup_status", "cst setup status"},
        tot \in {"2", "many"},
        th \in {<<"FSC-A", "500">>, <<"FSC-A">>},
        date \in {"05-JAN-2019", "n/a"},
        sp \in {<<"">>, <<"1", "A", "1">>, <<"2", "A", "B", "1", "0", "0">>},
        cst \in {"SUCCESS", "FAILED"},
        cm \in {NoFrame, Frame(<<"A">>, << <<1>> >>)} }

\* Channels, events and spillover matrices for compensate().
CompFiles ==
    { [text |-> [k \in S |-> sp], channels |-> ch, events |-> ev, comp_matrix |-> cm] :
        S \in {{}, {"spill"}}, sp \in SpillStrings, ch \in ChannelLists,
        ev \in EventBuffers, cm \in CompMatrices }

Files == PresenceFiles \cup ValueFiles \cup CompFiles

InitFCS ==
    /\ file \in Files
    /\ pc = "new"
    /\ rec = None
    /\ err = NoError
    /\ calls = 0
    /\ GateIdle
    /\ BatchIdle

NextFCS ==
    \/ Construct
    \/ Compensate

SpecFCS == InitFCS /\ [][NextFCS]_vars

--------------------------------------------------------------------------
(* Claims about FCSFile                                                    *)

\* A label that holds one of FSC, SSC, Time, FS, SS.
IsScatterLabel(label) ==
    \/ Contains(label, <<"F", "S", "C">>)
    \/ Contains(label, <<"S", "S", "C">>)
    \/ Contains(label, <<"T", "i", "m", "e">>)
    \/ Contains(label, <<"F", "S">>)
    \/ Contains(label, <<"S", "S">>)

\* The entries of one event row in the columns that hold no scatter label.
FluoroPart(o, row) ==
    LET cols == SelectSeq([i \in 1..Len(o.fluoro_mappings) |-> i],
                          LAMBDA i : ~IsScatterLabel(o.fluoro_mappings[i].channel))
    IN  [k \in 1..Len(cols) |-> row[cols[k]]]

\* row . m, for a matrix of at most two rows.
MulRow(row, m) ==
    [j \in 1..Len(m) |->
        IF Len(m) = 1 THEN row[1] * m[1][j]
        ELSE row[1] * m[1][j] + row[2] * m[2][j]]

\* row . m^k
RECURSIVE MulRowTimes(_, _, _)
MulRowTimes(row, m, k) == IF k = 0 THEN row ELSE MulRowTimes(MulRow(row, m), m, k - 1)

\* A step that is a call of compensate().
CompensateStep == pc = "loaded" /\ calls' = calls + 1

\* A step that is the construction of the record.
ConstructStep == pc = "new" /\ pc' # "new"

\* An error that reports a missing spillover matrix.
IsMissingSpillError(e) ==
    \/ e.type = "AssertionError"
    \/ e = Raise("KeyError", "no spillover matrix found")

\* C5: compensate() on a record whose spill is None raises the precondition
\* error and leaves the event matrix as it was, and the construction of a
\* record never ends with an error about a missing spillover matrix.
C5_MissingSpillFailsOnlyInCompensate ==
    [][/\ (CompensateStep /\ rec.spill.kind = "None") =>
              (err'.type = "AssertionError" /\ rec'.event_data = rec.event_data)
       /\ ConstructStep => ~IsMissingSpillError(err')]_vars

\* C6: a compensate() call that returns normally keeps the number of rows
\* and columns of the event matrix, keeps every value in a column whose
\* channel label holds FSC, SSC, Time, FS or SS, and keeps the channel
\* mappings and the spillover matrix.
C6_CompensateKeepsScatterColumns ==
    [][(CompensateStep /\ err' = NoError) =>
          LET old == rec.event_data
              new == rec'.event_data
          IN  /\ Len(new) = Len(old)
              /\ \A r \in 1..Len(old) :
                    /\ Len(new[r]) = Len(old[r])
                    /\ \A c \in 1..Len(old[r]) :
                          IsScatterLabel(rec.fluoro_mappings[c].channel) =>
                              new[r][c] = old[r][c]
              /\ rec'.fluoro_mappings = rec.fluoro_mappings
              /\ rec'.spill = rec.spill]_vars

\* compensate() returned normally on a record with a scatter column and
\* changed the event matrix.
C6_Witness ==
    /\ pc = "loaded"
    /\ calls >= 1
    /\ err = NoError
    /\ \E c \in 1..Len(rec.fluoro_mappings) : IsScatterLabel(rec.fluoro_mappings[c].channel)
    /\ rec.event_data # Reshape(rec.data, Len(rec.fluoro_mappings))

\* C7: compensate() called again after a call that returned normally returns
\* normally too, and after k calls that returned normally the fluorescence
\* part x of every event row is the raw part d with the transform applied k
\* times: x . spill^k = d.
C7_CompensateAppliesTransformAgain ==
    [][CompensateStep =>
          /\ (calls >= 1 /\ err = NoError) => err' = NoError
          /\ err' = NoError =>
                LET raw == Reshape(rec'.data, Len(rec'.fluoro_mappings))
                IN  \A r \in 1..Len(raw) :
                       MulRowTimes(FluoroPart(rec', rec'.event_data[r]),
                                   rec'.spill.values, calls')
                          = FluoroPart(rec', raw[r])]_vars

\* Two calls returned normally and the second one changed the event matrix
\* the first one had left: one more application of the spillover matrix to
\* the current rows does not give the current rows.
C7_Witness ==
    /\ pc = "loaded"
    /\ calls = 2
    /\ err = NoError
    /\ \E r \in 1..Len(rec.event_data) :
          MulRow(FluoroPart(rec, rec.event_data[r]), rec.spill.values)
             # FluoroPart(rec, rec.event_data[r])

\* The present keys of the file hold well-formed values, no comp_matrix is
\* given and the event buffer holds whole rows.
WellFormedFile(f) ==
    /\ \A k \in DOMAIN f.text : f.text[k] = GoodValue[k]
    /\ f.comp_matrix = NoFrame
    /\ Len(f.events) % Len(f.channels) = 0

\* C8: the construction of a record from a file whose present keys are
\* well-formed succeeds for every set of present keys, and every absent key
\* leaves its default.
C8_MissingMetadataNeverFails ==
    (pc \in {"loaded", "failed"} /\ WellFormedFile(file)) =>
        LET has(k) == k \in DOMAIN file.text
        IN  /\ pc = "loaded"
            /\ ~has("fil") => rec.filename = "Unknown_filename"
            /\ ~has("sys") => rec.sys = "Unknown_system"
            /\ ~has("tot") => rec.total_events = 0
            /\ ~has("tube name") => rec.tube_name = "Unknown"
            /\ ~has("experiment name") => rec.exp_name = "Unknown"
            /\ ~has("cyt") => rec.cytometer = "Unknown"
            /\ ~has("creator") => rec.creator = "Unknown"
            /\ ~has("export user name") => rec.operator = "Unknown"
            /\ ~has("threshold") => rec.threshold = [py |-> "str", v |-> "Unknown"]
            /\ (~has("date") \/ ~has("etim")) => rec.processing_date = "Unknown"
            /\ ~has("spill") => rec.spill = NoFrame
            /\ (~has("cst_setup_status") /\ ~has("cst setup status")) => rec.cst_pass = FALSE

\* C9: the construction never fails on the timestamp, and a record's
\* processing_date is "Unknown" when date or etim is missing or the two do
\* not parse, and the ISO-8601 string of the parsed value otherwise.
C9_TimestampNeverFailsLoad ==
    /\ pc = "failed" => err # Raise("ValueError", "date")
    /\ pc = "loaded" =>
          rec.processing_date =
             IF \/ "date" \notin DOMAIN file.text
                \/ "etim" \notin DOMAIN file.text
                \/ ~DateParses(file.text["date"], file.text["etim"])
             THEN "Unknown"
             ELSE "2019-01-05T10:15:30"

--------------------------------------------------------------------------
(* cytopy/flow/read_write.py: fcs_mappings and explore_channel_mappings    *)

\* How many files filter_fcs_files returns.
MaxFiles == 3

\* A Python value that is None or a list.
PyNone == [py |-> "None", v |-> <<>>]
PyList(l) == [py |-> "list", v |-> l]

\* fcs_mappings(path), lines 22-33: a ValueError is caught and answered by
\* None, any other exception escapes.
fcs_mappings(f) ==
    LET r == FCSFile(f)
    IN  IF r.raised = NoError
        THEN [raised |-> NoError, value |-> PyList(r.obj.fluoro_mappings)]
        ELSE IF r.raised.type = "ValueError"
        THEN [raised |-> NoError, value |-> PyNone]
        ELSE [raised |-> r.raised, value |-> PyNone]

\* A JSON text is the sequence of its tokens: punctuation, key names, and
\* the characters of a string between quotes.
Quoted(chars) == <<"\"">> \o chars \o <<"\"">>

DumpsMapping(m) ==
    <<"{", "channel", ":">> \o Quoted(m.channel) \o
    <<",", "marker", ":">> \o Quoted(m.marker) \o <<"}">>

RECURSIVE DumpsItems(_, _)
DumpsItems(l, i) ==
    IF i > Len(l) THEN <<>>
    ELSE (IF i > 1 THEN <<",">> ELSE <<>>) \o DumpsMapping(l[i]) \o DumpsItems(l, i + 1)

\* json.dumps(x), line 46.
dumps(x) == IF x.py = "None" THEN <<"null">> ELSE <<"[">> \o DumpsItems(x.v, 1) \o <<"]">>

\* The position of the first quote of s at or after i.
NextQuote(s, i) == CHOOSE k \in i..Len(s) : s[k] = "\"" /\ \A j \in i..(k - 1) : s[j] # "\""

\* The objects of a JSON array, read from the token at i.
RECURSIVE LoadsItems(_, _)
LoadsItems(s, i) ==
    IF s[i] = "]" THEN <<>>
    ELSE LET start == IF s[i] = "," THEN i + 1 ELSE i
             c1 == start + 4
             c2 == NextQuote(s, c1)
             m1 == c2 + 5
             m2 == NextQuote(s, m1)
         IN  <<[channel |-> SubSeq(s, c1, c2 - 1), marker |-> SubSeq(s, m1, m2 - 1)]>>
                \o LoadsItems(s, m2 + 2)

\* json.loads(s), line 48.
loads(s) == IF s = <<"null">> THEN PyNone ELSE PyList(LoadsItems(s, 2))

\* The orders in which a set can be iterated.
Orders(S) ==
    {q \in [1..Cardinality(S) -> S] : \A i, j \in 1..Cardinality(S) : q[i] = q[j] => i = j}

Pending == [state |-> "pending", raised |-> NoError, value |-> PyNone]

\* A worker of the pool runs fcs_mappings on the i-th file.
Worker(i) ==
    /\ bpc = "map"
    /\ results[i].state = "pending"
    /\ LET r == fcs_mappings(fcs_files[i])
       IN  results' = [results EXCEPT ![i] =
                          [state |-> "finished", raised |-> r.raised, value |-> r.value]]
    /\ UNCHANGED <<fcs_files, bpc, output, gateVars, fcsVars>>

\* Lines 45-48 once every task has ended: pool.map raises what a task
\* raised, or returns the values in the order of fcs_files; the result is
\* the set of their JSON texts, loaded back in the order the set iterates.
Merge ==
    /\ bpc = "map"
    /\ \A i \in 1..Len(results) : results[i].state = "finished"
    /\ IF \E i \in 1..Len(results) : results[i].raised # NoError
       THEN \E i \in 1..Len(results) :
               /\ results[i].raised # NoError
               /\ output' = [kind |-> "raised", raised |-> results[i].raised, value |-> <<>>]
       ELSE LET all_mappings == [i \in 1..Len(results) |-> results[i].value]
                all_mappings_json == [i \in 1..Len(results) |-> dumps(all_mappings[i])]
                unique_mappings == {all_mappings_json[i] : i \in 1..Len(results)}
            IN  \E q \in Orders(unique_mappings) :
                   output' = [kind |-> "returned", raised |-> NoError,
                              value |-> [k \in 1..Len(q) |-> loads(q[k])]]
    /\ bpc' = "done"
    /\ UNCHANGED <<fcs_files, results, gateVars, fcsVars>>

\* The files of a directory: two with the same channels and different
\* events, one with other channels, one whose event buffer cannot be
\* reshaped, one that holds the key cst_setup_status alone.
BatchFiles ==
    { [text |-> <<>>, channels |-> MetaChannels, events |-> <<1, 2, 3, 4>>,
       comp_matrix |-> NoFrame],
      [text |-> <<>>, channels |-> MetaChannels, events |-> <<3, 1>>,
       comp_matrix |-> NoFrame],
      [text |-> <<>>, channels |-> << [PnN |-> PE_A, PnS |-> CD_4] >>, events |-> <<1, 2>>,
       comp_matrix |-> NoFrame],
      [text |-> <<>>, channels |-> MetaChannels, events |-> <<1, 2, 3>>,
       comp_matrix |-> NoFrame],
      [text |-> [k \in {"cst_setup_status"} |-> "SUCCESS"], channels |-> MetaChannels,
       events |-> <<1, 2, 3, 4>>, comp_matrix |-> NoFrame] }

InitBatch ==
    /\ \E n \in 0..MaxFiles : fcs_files \in [1..n -> BatchFiles]
    /\ results = [i \in 1..Len(fcs_files) |-> Pending]
    /\ bpc = "map"
    /\ output = None
    /\ GateIdle
    /\ FcsIdle

NextBatch ==
    \/ \E i \in 1..Len(fcs_files) : Worker(i)
    \/ Merge

SpecBatch == InitBatch /\ [][NextBatch]_vars

--------------------------------------------------------------------------
(* Claims about the batch mapping discovery                                *)

\* C10: explore_channel_mappings returns, for every list of files and every
\* order in which the workers finish, a list that holds the channel mappings
\* of each file that loads, each distinct mapping once, and nothing else.
C10_FailedFilesLeaveNoEntry ==
    bpc = "done" =>
        LET loaded == {i \in 1..Len(fcs_files) : FCSFile(fcs_files[i]).raised = NoError}
            expected == {PyList(get_fluoro_mapping(fcs_files[i].channels)) : i \in loaded}
        IN  /\ output.kind = "returned"
            /\ {output.value[k] : k \in 1..Len(output.value)} = expected
            /\ Len(output.value) = Cardinality(expected)

====
